---------------------------- MODULE Spec2Model ----------------------------
(***************************************************************************)
(* Model of the optical-design chat backend (src/app.py).                  *)
(*                                                                         *)
(* Text is modelled as a sequence of characters, each a one-character      *)
(* string.  The backing file of the prompt store is a record               *)
(* [exists, data]; handlers of the FastAPI application are the actions.    *)
(*                                                                         *)
(* Spec      the prompt store as served by one event loop: the handlers    *)
(*           are `async def` bodies without an await, so each one runs to  *)
(*           completion before the next starts.                            *)
(* SpecConc  the prompt store shared by several server workers (threads of *)
(*           a pool, or processes started with --workers): the file        *)
(*           operations of get_stored_system_prompt and save_system_prompt *)
(*           interleave, one system call at a time.                        *)
(* SpecDesign the design and chat handlers behind one event loop: a        *)
(*           request is assembled and sent to the model backend, and the   *)
(*           backend's reply is extracted, validated and answered.         *)
(***************************************************************************)
EXTENDS Integers, Sequences, FiniteSets, TLC

VARIABLES
    file,      \* prompts/system_prompt.txt: [exists, data]
    resp,      \* the response of the request handled last
    lastSet,   \* history: the content of the last successful set, while it stands
    cleared,   \* history: a clear has completed and no set has succeeded since
    workers,   \* SpecConc: each worker's request, position and locals
    file0,     \* SpecConc, history: the file when the workers started
    call,      \* SpecDesign: the call to the model backend that is in flight
    parse      \* SpecDesign: what the handler extracted from the backend's reply

storeVars == <<resp, lastSet, cleared>>

concVars == <<workers, file0>>

pipeVars == <<call, parse>>

vars == <<file, resp, lastSet, cleared, workers, file0, call, parse>>

-----------------------------------------------------------------------------
(* Bounds *)

\* longest prompt content a client posts
MaxLen == 3

\* server workers that share the prompt file
NumWorkers == 2

\* longest reply of the backend among those made of arbitrary tokens
MaxText == 3

-----------------------------------------------------------------------------
(* Text *)

\* characters of prompt contents: a letter, a line feed, a carriage return
Chars == {"a", "\n", "\r"}

\* what str.strip() removes
Whitespace == {" ", "\n", "\r", "\t"}

RECURSIVE SeqsUpTo(_, _)
SeqsUpTo(S, n) ==
    IF n = 0 THEN {<<>>}
    ELSE LET shorter == SeqsUpTo(S, n - 1)
         IN  shorter \cup {Append(s, c) : s \in {t \in shorter : Len(t) = n - 1}, c \in S}

Contents == SeqsUpTo(Chars, MaxLen)

Range(s) == {s[i] : i \in 1..Len(s)}

RECURSIVE LStrip(_)
LStrip(s) ==
    IF s = <<>> THEN <<>>
    ELSE IF Head(s) \in Whitespace THEN LStrip(Tail(s)) ELSE s

RECURSIVE RStrip(_)
RStrip(s) ==
    IF s = <<>> THEN <<>>
    ELSE IF s[Len(s)] \in Whitespace THEN RStrip(SubSeq(s, 1, Len(s) - 1)) ELSE s

\* str.strip()
Strip(s) == RStrip(LStrip(s))

\* What a text-mode read (newline=None, universal newlines) returns for the
\* stored characters: "\r\n" and a lone "\r" both become "\n".
RECURSIVE ReadText(_)
ReadText(data) ==
    IF data = <<>> THEN <<>>
    ELSE IF Head(data) = "\r"
         THEN IF Len(data) >= 2 /\ data[2] = "\n"
              THEN <<"\n">> \o ReadText(SubSeq(data, 3, Len(data)))
              ELSE <<"\n">> \o ReadText(Tail(data))
         ELSE <<Head(data)>> \o ReadText(Tail(data))

\* What a text-mode write (newline=None) stores: "\n" becomes os.linesep,
\* which is "\n" on the POSIX hosts the server is deployed on.
WriteText(content) == content

-----------------------------------------------------------------------------
(* JSON *)

\* A JSON value is a pair <<tag, payload>>:
\*   <<"null", <<>>>>   <<"num", digits>>   <<"str", characters>>
\*   <<"arr", items>>   <<"obj", members>>, a member being <<key, value>>
\* with the members in insertion order, as in a Python dict.
\*
\* Text that holds JSON is a sequence of tokens.  The structural characters,
\* the quote, whitespace and digits are one character each; FENCE stands for
\* the three backticks of a code fence, MARKER for the three backticks
\* followed by the letters json, and a word inside a string literal stands
\* for its letters.

FENCE == "<fence>"

MARKER == "<fence>json"

QUOTE == "\""

Digits == {"0", "1", "2", "5"}

JNull == <<"null", <<>>>>

JNum(digits) == <<"num", digits>>

JStr(chars) == <<"str", chars>>

JArr(items) == <<"arr", items>>

JObj(members) == <<"obj", members>>

Tag(v) == v[1]

IsObj(v) == Tag(v) = "obj"

Keys(v) == {v[2][i][1] : i \in 1..Len(v[2])}

HasKey(v, key) == IsObj(v) /\ key \in Keys(v)

\* dict[key], for a key the dict has
Lookup(v, key) ==
    LET i == CHOOSE i \in 1..Len(v[2]) : v[2][i][1] = key
    IN  v[2][i][2]

\* dict[key] = value: a new key goes last, an old one keeps its place
SetMember(members, key, value) ==
    IF \E i \in 1..Len(members) : members[i][1] = key
    THEN [i \in 1..Len(members) |->
            IF members[i][1] = key THEN <<key, value>> ELSE members[i]]
    ELSE Append(members, <<key, value>>)

\* the dict without key
WithoutKey(v, key) ==
    LET Keep(m) == m[1] # key
    IN  JObj(SelectSeq(v[2], Keep))

\* Python truthiness of an Optional[dict] or Optional[str] field
Truthy(v) ==
    /\ Tag(v) # "null"
    /\ v[2] # <<>>

RECURSIVE Repeat(_, _)
Repeat(s, n) == IF n <= 0 THEN <<>> ELSE s \o Repeat(s, n - 1)

\* json.dumps(v) and json.dumps(v, indent=2): indent is 0 for the one-line form
RECURSIVE Dumps(_, _, _)
RECURSIVE DumpsItems(_, _, _, _)
Dumps(v, indent, depth) ==
    LET open   == IF Tag(v) = "obj" THEN "{" ELSE "["
        close  == IF Tag(v) = "obj" THEN "}" ELSE "]"
        inner  == IF indent = 0 THEN <<>> ELSE <<"\n">> \o Repeat(<<" ">>, indent * (depth + 1))
        outer  == IF indent = 0 THEN <<>> ELSE <<"\n">> \o Repeat(<<" ">>, indent * depth)
    IN  CASE Tag(v) = "null" -> <<"null">>
          [] Tag(v) = "num"  -> v[2]
          [] Tag(v) = "str"  -> <<QUOTE>> \o v[2] \o <<QUOTE>>
          [] OTHER ->
               IF v[2] = <<>> THEN <<open, close>>
               ELSE <<open>> \o inner
                        \o DumpsItems(v, 1, indent, depth + 1)
                        \o outer \o <<close>>

DumpsItems(v, i, indent, depth) ==
    LET item == IF Tag(v) = "obj"
                THEN <<QUOTE>> \o v[2][i][1] \o <<QUOTE, ":", " ">>
                         \o Dumps(v[2][i][2], indent, depth)
                ELSE Dumps(v[2][i], indent, depth)
        sep  == IF indent = 0 THEN <<",", " ">>
                ELSE <<",", "\n">> \o Repeat(<<" ">>, indent * depth)
    IN  IF i = Len(v[2]) THEN item
        ELSE item \o sep \o DumpsItems(v, i + 1, indent, depth)

\* json.loads: a recursive-descent parser.  Each Parse* takes the tokens and
\* a position (from 1) and returns [ok, val, pos], pos being the position
\* after what it read.
JsonWhitespace == {" ", "\n", "\r", "\t"}

Failed == [ok |-> FALSE, val |-> JNull, pos |-> 0]

Parsed(val, pos) == [ok |-> TRUE, val |-> val, pos |-> pos]

RECURSIVE SkipWs(_, _)
SkipWs(t, i) ==
    IF i <= Len(t) /\ t[i] \in JsonWhitespace THEN SkipWs(t, i + 1) ELSE i

\* the position of the quote that closes a string whose content starts at i,
\* 0 when the string is not closed or holds a raw control character
RECURSIVE StringEnd(_, _)
StringEnd(t, i) ==
    IF i > Len(t) THEN 0
    ELSE IF t[i] = QUOTE THEN i
    ELSE IF t[i] \in {"\n", "\r", "\t"} THEN 0
    ELSE StringEnd(t, i + 1)

\* the position after the digits of a number that starts at i: a leading
\* zero is a number by itself
RECURSIVE NumberEnd(_, _)
NumberEnd(t, i) ==
    IF i <= Len(t) /\ t[i] \in Digits THEN NumberEnd(t, i + 1) ELSE i

RECURSIVE ParseValue(_, _)
RECURSIVE ParseMembers(_, _, _)
RECURSIVE ParseItems(_, _, _)
ParseValue(t, i) ==
    IF i > Len(t) THEN Failed
    ELSE CASE t[i] = "null" -> Parsed(JNull, i + 1)
           [] t[i] \in Digits ->
                LET j == IF t[i] = "0" THEN i + 1 ELSE NumberEnd(t, i)
                IN  Parsed(JNum(SubSeq(t, i, j - 1)), j)
           [] t[i] = QUOTE ->
                LET j == StringEnd(t, i + 1)
                IN  IF j = 0 THEN Failed ELSE Parsed(JStr(SubSeq(t, i + 1, j - 1)), j + 1)
           [] t[i] = "{" ->
                LET j == SkipWs(t, i + 1)
                IN  IF j <= Len(t) /\ t[j] = "}" THEN Parsed(JObj(<<>>), j + 1)
                    ELSE ParseMembers(t, j, <<>>)
           [] t[i] = "[" ->
                LET j == SkipWs(t, i + 1)
                IN  IF j <= Len(t) /\ t[j] = "]" THEN Parsed(JArr(<<>>), j + 1)
                    ELSE ParseItems(t, j, <<>>)
           [] OTHER -> Failed

\* the members of an object from position i (at a key), after those in acc
ParseMembers(t, i, acc) ==
    IF i > Len(t) \/ t[i] # QUOTE THEN Failed
    ELSE LET e == StringEnd(t, i + 1)
         IN  IF e = 0 THEN Failed
             ELSE LET key   == SubSeq(t, i + 1, e - 1)
                      colon == SkipWs(t, e + 1)
                  IN  IF colon > Len(t) \/ t[colon] # ":" THEN Failed
                      ELSE LET r == ParseValue(t, SkipWs(t, colon + 1))
                           IN  IF ~r.ok THEN Failed
                               ELSE LET members == SetMember(acc, key, r.val)
                                        next    == SkipWs(t, r.pos)
                                    IN  IF next > Len(t) THEN Failed
                                        ELSE IF t[next] = "}" THEN Parsed(JObj(members), next + 1)
                                        ELSE IF t[next] = ","
                                             THEN ParseMembers(t, SkipWs(t, next + 1), members)
                                        ELSE Failed

\* the items of an array from position i (at a value), after those in acc
ParseItems(t, i, acc) ==
    LET r == ParseValue(t, i)
    IN  IF ~r.ok THEN Failed
        ELSE LET items == Append(acc, r.val)
                 next  == SkipWs(t, r.pos)
             IN  IF next > Len(t) THEN Failed
                 ELSE IF t[next] = "]" THEN Parsed(JArr(items), next + 1)
                 ELSE IF t[next] = "," THEN ParseItems(t, SkipWs(t, next + 1), items)
                 ELSE Failed

\* json.loads(text): [ok, val]; not ok is json.JSONDecodeError.  Whitespace
\* may surround the document and nothing else may follow it.
json_loads(text) ==
    LET r == ParseValue(text, SkipWs(text, 1))
    IN  IF r.ok /\ SkipWs(text, r.pos) > Len(text)
        THEN [ok |-> TRUE, val |-> r.val]
        ELSE [ok |-> FALSE, val |-> JNull]

\* str.find(pattern, start) with positions from 0 as in Python; -1 when the
\* pattern does not occur.  `starts` is the set of tokens that begin with
\* the pattern: {MARKER} for the fence with json, {FENCE, MARKER} for the fence.
Find(text, starts, start) ==
    LET hits == {i \in start..(Len(text) - 1) : text[i + 1] \in starts}
    IN  IF hits = {} THEN -1
        ELSE CHOOSE i \in hits : \A j \in hits : i <= j

\* text[a:b] for a >= 0, with Python's reading of a negative b
Slice(text, a, b) ==
    LET stop == IF b < 0 THEN Len(text) + b ELSE IF b > Len(text) THEN Len(text) ELSE b
    IN  SubSeq(text, a + 1, stop)

-----------------------------------------------------------------------------
(* Prompt store *)

\* the built-in default prompt, one token standing for the whole text
SYSTEM_PROMPT == <<"SYSTEM_PROMPT">>

Absent == [exists |-> FALSE, data |-> <<>>]

Stored(data) == [exists |-> TRUE, data |-> data]

ReadOutcomes == {"ok", "error"}

get_stored_system_prompt_reraise(f, io) ==
    IF ~f.exists THEN SYSTEM_PROMPT
    ELSE IF io = "error" THEN <<"raised">>
    ELSE LET content == Strip(ReadText(f.data))
         IN  IF content # <<>> THEN content ELSE SYSTEM_PROMPT

get_stored_system_prompt_empty(f, io) ==
    IF ~f.exists THEN <<>>
    ELSE IF io = "error" THEN SYSTEM_PROMPT
    ELSE LET content == Strip(ReadText(f.data))
         IN  IF content # <<>> THEN content ELSE SYSTEM_PROMPT

\* get_stored_system_prompt(): io is whether open()/read() raise
get_stored_system_prompt(f, io) ==
    IF ~f.exists THEN SYSTEM_PROMPT
    ELSE IF io = "error" THEN SYSTEM_PROMPT
    ELSE LET content == Strip(ReadText(f.data))
         IN  IF content # <<>> THEN content ELSE SYSTEM_PROMPT

\* the detail of an HTTPException: the text before the colon, what raised,
\* and the reply text the message quotes
Detail(prefix, cause, text) == [prefix |-> prefix, cause |-> cause, text |-> text]

NoDetail == Detail("", "", <<>>)

\* a response: the handler that answered, the HTTP status, the detail of an
\* error and the content of a success
Response(op, status, detail, content) ==
    [op |-> op, status |-> status, detail |-> detail, content |-> content]

NoResponse == Response("none", 0, NoDetail, <<>>)

NoSet == [set |-> FALSE, content |-> <<>>]

\* GET /api/system-prompt
get_system_prompt(io) ==
    /\ resp' = Response("get", 200, NoDetail, get_stored_system_prompt(file, io))
    /\ UNCHANGED <<file, lastSet, cleared>>

content_is_empty_unstripped(content) == content = <<>>

\* update_system_prompt's validation: `not request.content.strip()`
content_is_empty(content) == Strip(content) = <<>>

SaveOutcomes == {"ok", "open_error", "write_error"}

save_system_prompt_append(f, content, io) ==
    IF io = "ok" THEN Stored(f.data \o WriteText(content))
    ELSE IF io = "open_error" THEN f
    ELSE Stored(f.data)

\* The file after save_system_prompt(content).  makedirs() or open() may
\* raise, and the file is as it was; open(.., "w") creates or truncates it;
\* the content sits in the writer's buffer until the `with` block closes the
\* file, so a write that raises leaves the truncated file behind.
save_system_prompt(f, content, io) ==
    IF io = "ok" THEN Stored(WriteText(content))
    ELSE IF io = "open_error" THEN f
    ELSE Stored(<<>>)

\* POST /api/system-prompt
update_system_prompt(content, io) ==
    IF content_is_empty(content)
    THEN /\ resp' = Response("set", 400,
                             Detail("System prompt content cannot be empty", "HTTPException", <<>>), <<>>)
         /\ UNCHANGED <<file, lastSet, cleared>>
    ELSE /\ file' = save_system_prompt(file, content, io)
         /\ resp' = IF io = "ok"
                    THEN Response("set", 200, NoDetail, <<>>)
                    ELSE Response("set", 500, Detail("Error saving system prompt", "OSError", <<>>), <<>>)
         /\ lastSet' = IF io = "ok" THEN [set |-> TRUE, content |-> content]
                       ELSE IF io = "open_error" THEN lastSet
                       ELSE NoSet
         /\ cleared' = IF io = "ok" THEN FALSE ELSE cleared

\* DELETE /api/system-prompt: removes the override
clear_system_prompt ==
    /\ file' = Absent
    /\ resp' = Response("clear", 200, NoDetail, <<>>)
    /\ lastSet' = NoSet
    /\ cleared' = TRUE

-----------------------------------------------------------------------------
(* Design schema: the pydantic models *)

\* a key of a JSON object: one word
K(name) == <<name>>

\* float: a JSON number, or a string that reads as one
IsFloat(v) ==
    \/ Tag(v) = "num"
    \/ Tag(v) = "str" /\ v[2] # <<>> /\ Range(v[2]) \subseteq Digits

\* str
IsStr(v) == Tag(v) = "str"

\* Literal[...]
IsLiteral(v, words) == Tag(v) = "str" /\ \E w \in words : v[2] = <<w>>

\* List[T]
IsList(v, Valid(_)) == Tag(v) = "arr" /\ \A i \in 1..Len(v[2]) : Valid(v[2][i])

\* a field declared without a default
Required(v, name, Valid(_)) == HasKey(v, K(name)) /\ Valid(Lookup(v, K(name)))

\* a field declared Optional[T] = None
Optional(v, name, Valid(_)) ==
    HasKey(v, K(name)) => (Tag(Lookup(v, K(name))) = "null" \/ Valid(Lookup(v, K(name))))

\* class InfinityField
InfinityField(v) == IsObj(v) /\ Required(v, "deg", IsFloat)

\* class PointField
PointField(v) == IsObj(v) /\ Required(v, "x_mm", IsFloat) /\ Required(v, "y_mm", IsFloat)

\* Union[InfinityField, PointField]
FieldUnion(v) == InfinityField(v) \/ PointField(v)

IsFieldList(v) == IsList(v, FieldUnion)

IsFloatList(v) == IsList(v, IsFloat)

IsSourceType(v) == IsLiteral(v, {"point", "infinity"})

\* class Source
Source(v) ==
    /\ IsObj(v)
    /\ Required(v, "type", IsSourceType)
    /\ Required(v, "fields", IsFieldList)
    /\ Required(v, "wavelengths_nm", IsFloatList)

IsSurfaceType(v) == IsLiteral(v, {"planar", "spherical", "aspherical"})

\* class Surface
Surface(v) ==
    /\ IsObj(v)
    /\ Required(v, "type", IsSurfaceType)
    /\ Optional(v, "roc_mm", IsFloat)
    /\ Optional(v, "conic", IsFloat)
    /\ Optional(v, "asphere", IsFloatList)

\* class Lens
Lens(v) ==
    /\ IsObj(v)
    /\ Required(v, "diameter_mm", IsFloat)
    /\ Required(v, "thickness_mm", IsFloat)
    /\ Required(v, "distance_from_previous_mm", IsFloat)
    /\ Required(v, "material", IsStr)
    /\ Optional(v, "refractiveIndex", IsFloat)
    /\ Required(v, "front", Surface)
    /\ Required(v, "back", Surface)
    /\ Optional(v, "label", IsStr)

IsLensList(v) == IsList(v, Lens)

\* class OpticalDesign: whether OpticalDesign(**v) validates
OpticalDesign(v) ==
    /\ IsObj(v)
    /\ Required(v, "source", Source)
    /\ Required(v, "lenses", IsLensList)
    /\ Required(v, "image_plane_x_mm", IsFloat)

\* the fields of a validated model: the declared names in the order of the
\* class, an Optional one that was not given being None, any other key of
\* the input dropped
RECURSIVE Fields(_, _)
Fields(v, names) ==
    IF names = <<>> THEN <<>>
    ELSE <<  <<K(Head(names)),
               IF HasKey(v, K(Head(names))) THEN Lookup(v, K(Head(names))) ELSE JNull>>  >>
            \o Fields(v, Tail(names))

\* the field element as the first class of the Union that accepts it
FieldModel(v) ==
    IF InfinityField(v) THEN JObj(Fields(v, <<"deg">>))
    ELSE JObj(Fields(v, <<"x_mm", "y_mm">>))

SourceModel(v) ==
    JObj(<< <<K("type"), Lookup(v, K("type"))>>,
            <<K("fields"),
              JArr([i \in 1..Len(Lookup(v, K("fields"))[2]) |->
                        FieldModel(Lookup(v, K("fields"))[2][i])])>>,
            <<K("wavelengths_nm"), Lookup(v, K("wavelengths_nm"))>> >>)

SurfaceModel(v) == JObj(Fields(v, <<"type", "roc_mm", "conic", "asphere">>))

LensModel(v) ==
    LET flat == JObj(Fields(v, <<"diameter_mm", "thickness_mm", "distance_from_previous_mm",
                                  "material", "refractiveIndex", "front", "back", "label">>))
    IN  JObj(SetMember(SetMember(flat[2], K("front"), SurfaceModel(Lookup(v, K("front")))),
                       K("back"), SurfaceModel(Lookup(v, K("back")))))

\* the OpticalDesign that OpticalDesign(**v) constructs from a v that validates
OpticalDesignModel(v) ==
    JObj(<< <<K("source"), SourceModel(Lookup(v, K("source")))>>,
            <<K("lenses"),
              JArr([i \in 1..Len(Lookup(v, K("lenses"))[2]) |->
                        LensModel(Lookup(v, K("lenses"))[2][i])])>>,
            <<K("image_plane_x_mm"), Lookup(v, K("image_plane_x_mm"))>> >>)

-----------------------------------------------------------------------------
(* Design pipeline: generate_optical_design and chat_endpoint *)

\* The call to the backend: the endpoint whose handler made it, how the
\* handler's read of the prompt store went (read), the request it serves,
\* and the system prompt and messages it carries.  Once the backend has
\* taken it (taken), the handler waits for the reply and uses none of these
\* again, so they are dropped.
Call(endpoint, taken, read, req, system, msgs) ==
    [endpoint |-> endpoint, taken |-> taken, read |-> read, req |-> req,
     system |-> system, messages |-> msgs]

\* no call to the backend is in flight
NoCall == Call("none", FALSE, "", <<>>, <<>>, <<>>)

\* nothing was extracted: no reply has come
NoParse == [raw |-> <<>>, ok |-> FALSE, data |-> JNull, text |-> <<>>]

\* an OpticalDesignRequest
Request(user_message, system_message, previous_design, added_data) ==
    [user_message |-> user_message, system_message |-> system_message,
     previous_design |-> previous_design, added_data |-> added_data]

ACKNOWLEDGMENT ==
    <<"I've noted the previous design and additional context. I'll use this information to help with the current request.">>

system_prompt_without_instructions(base_system_prompt, system_message) ==
    base_system_prompt

\* the system prompt sent to the backend
system_prompt(base_system_prompt, system_message) ==
    IF Truthy(system_message)
    THEN base_system_prompt \o <<"\n", "\n", "ADDITIONAL INSTRUCTIONS:", "\n">> \o system_message[2]
    ELSE base_system_prompt

\* context_parts
context_parts(req) ==
    (IF Truthy(req.previous_design)
     THEN << <<"PREVIOUS DESIGN (for reference/iteration):", "\n">>
                \o Dumps(req.previous_design, 2, 0) >>
     ELSE <<>>)
    \o
    (IF Truthy(req.added_data)
     THEN << <<"ADDITIONAL CONTEXT:", "\n">> \o Dumps(req.added_data, 2, 0) >>
     ELSE <<>>)

\* "\n\n".join(parts)
RECURSIVE Join(_)
Join(parts) ==
    IF parts = <<>> THEN <<>>
    ELSE IF Len(parts) = 1 THEN parts[1]
    ELSE parts[1] \o <<"\n", "\n">> \o Join(Tail(parts))

Message(role, content) == [role |-> role, content |-> content]

messages_without_acknowledgment(req) ==
    (IF context_parts(req) # <<>>
     THEN <<Message("user", Join(context_parts(req)))>>
     ELSE <<>>)
    \o <<Message("user", req.user_message)>>

\* the messages sent to the backend
messages(req) ==
    (IF context_parts(req) # <<>>
     THEN <<Message("user", Join(context_parts(req))),
            Message("assistant", ACKNOWLEDGMENT)>>
     ELSE <<>>)
    \o <<Message("user", req.user_message)>>

\* what client.messages.create does: it raises anthropic.APIError, or the
\* handler raises something else on its result (no content block), or the
\* first content block holds text
Outcome(kind, text) == [kind |-> kind, text |-> text]

\* the outcome of reading the design out of the reply: ok and the value
\* json.loads returned (data), or not ok and the exception that left the
\* parsing block (cause); text is response_text as the block leaves it
Extracted(ok, data, text, cause) == [ok |-> ok, data |-> data, text |-> text, cause |-> cause]

\* generate_optical_design, "Parse JSON response": json.loads of the stripped
\* reply and, when that raises and the reply holds the marker, json.loads of
\* what lies between the marker and the next fence.  The marker is one token
\* here, so the 7 characters the code skips are 1 position.
extract_design(reply) ==
    LET response_text == Strip(reply)
        first         == json_loads(response_text)
    IN  IF first.ok THEN Extracted(TRUE, first.val, response_text, "")
        ELSE IF MARKER \in Range(response_text)
        THEN LET json_start == Find(response_text, {MARKER}, 0) + 1
                 json_end   == Find(response_text, {FENCE, MARKER}, json_start)
                 sliced     == Strip(Slice(response_text, json_start, json_end))
                 second     == json_loads(sliced)
             IN  IF second.ok THEN Extracted(TRUE, second.val, sliced, "")
                 ELSE Extracted(FALSE, JNull, sliced, "JSONDecodeError")
        ELSE Extracted(FALSE, JNull, response_text, "HTTPException")

DesignError(cause, text) ==
    Response("design", 500, Detail("Error generating optical design", cause, text), <<>>)

design_response_keeping_explanation(e) ==
    IF ~e.ok
    THEN DesignError(e.cause, IF e.cause = "HTTPException" THEN e.text ELSE <<>>)
    ELSE IF ~IsObj(e.data) THEN DesignError("TypeError", <<>>)
    ELSE IF ~OpticalDesign(e.data) THEN DesignError("ValidationError", <<>>)
    ELSE Response("design", 200, NoDetail,
                  [design |-> OpticalDesignModel(e.data), explanation |-> JNull])

\* generate_optical_design from the extraction on: pop the explanation,
\* validate, build the response.  The HTTPException raised for a reply
\* without marker is caught by `except Exception` like any other and
\* wrapped again; its message, which quotes the reply, is kept in the
\* detail.  The JSONDecodeError of the second json.loads quotes nothing.
design_response(e) ==
    IF ~e.ok
    THEN DesignError(e.cause, IF e.cause = "HTTPException" THEN e.text ELSE <<>>)
    ELSE IF ~IsObj(e.data) THEN DesignError("TypeError", <<>>)
    ELSE LET explanation == IF HasKey(e.data, K("explanation"))
                            THEN Lookup(e.data, K("explanation")) ELSE JNull
             design_data == WithoutKey(e.data, K("explanation"))
         IN  IF ~OpticalDesign(design_data) THEN DesignError("ValidationError", <<>>)
             ELSE IF Tag(explanation) \notin {"str", "null"}
                  THEN DesignError("ValidationError", <<>>)
             ELSE Response("design", 200, NoDetail,
                           [design |-> OpticalDesignModel(design_data),
                            explanation |-> explanation])

\* chat_endpoint from the reply on
chat_response(reply) ==
    LET stripped      == Strip(reply)
        response_text ==
            IF MARKER \in Range(stripped)
            THEN LET json_start == Find(stripped, {MARKER}, 0) + 1
                     json_end   == Find(stripped, {FENCE, MARKER}, json_start)
                 IN  Strip(Slice(stripped, json_start, json_end))
            ELSE stripped
        loaded        == json_loads(response_text)
    IN  IF loaded.ok
        THEN Response("chat", 200, NoDetail,
                      [type |-> "design", data |-> loaded.val, raw_response |-> response_text])
        ELSE Response("chat", 200, NoDetail,
                      [type |-> "text", message |-> response_text, raw_response |-> response_text])

\* POST /api/design and POST /api/chat up to client.messages.create: the
\* prompt is read, the system prompt and the messages are built and sent
send_request(endpoint, req, io) ==
    /\ call.endpoint = "none"
    /\ call' = Call(endpoint, FALSE, io, req,
                     system_prompt(get_stored_system_prompt(file, io), req.system_message),
                     messages(req))
    /\ resp' = NoResponse
    /\ parse' = NoParse
    /\ UNCHANGED <<file, lastSet, cleared>>

\* client.messages.create: the backend takes the call; the handler blocks
\* the event loop until the reply
backend_takes_call ==
    /\ call.endpoint # "none"
    /\ ~call.taken
    /\ call' = Call(call.endpoint, TRUE, "", <<>>, <<>>, <<>>)
    /\ UNCHANGED <<file, resp, parse, lastSet, cleared>>

\* POST /api/design from the return of client.messages.create on
generate_optical_design(outcome) ==
    /\ call.endpoint = "design"
    /\ call.taken
    /\ call' = NoCall
    /\ UNCHANGED <<file, lastSet, cleared>>
    /\ IF outcome.kind = "api_error"
       THEN /\ resp' = Response("design", 500, Detail("Anthropic API error", "APIError", <<>>), <<>>)
            /\ parse' = NoParse
       ELSE IF outcome.kind = "error"
       THEN /\ resp' = DesignError("Exception", <<>>)
            /\ parse' = NoParse
       ELSE LET e == extract_design(outcome.text)
            IN  /\ parse' = [raw |-> outcome.text, ok |-> e.ok, data |-> e.data, text |-> e.text]
                /\ resp' = design_response(e)

\* POST /api/chat from the return of client.messages.create on
chat_endpoint(outcome) ==
    /\ call.endpoint = "chat"
    /\ call.taken
    /\ call' = NoCall
    /\ UNCHANGED <<file, lastSet, cleared>>
    /\ IF outcome.kind # "text"
       THEN /\ resp' = Response("chat", 500,
                                 Detail("Error in chat",
                                        IF outcome.kind = "api_error" THEN "APIError" ELSE "Exception",
                                        <<>>),
                                 <<>>)
            /\ parse' = NoParse
       ELSE /\ resp' = chat_response(outcome.text)
            /\ parse' = [raw |-> outcome.text, ok |-> resp'.content.type = "design",
                         data |-> IF resp'.content.type = "design" THEN resp'.content.data ELSE JNull,
                         text |-> resp'.content.raw_response]

-----------------------------------------------------------------------------
(* Spec: the prompt store behind one event loop *)

Workers == 1..NumWorkers

Idle == [op |-> "idle", pc |-> "idle", content |-> <<>>, pos |-> 0, result |-> <<>>]

\* The file may be left over from an earlier run of the server, and it may
\* have been put there by hand: any content, or none.
Init ==
    /\ file \in {Absent} \cup {Stored(c) : c \in Contents}
    /\ resp = NoResponse
    /\ lastSet = NoSet
    /\ cleared = FALSE
    /\ workers = [p \in Workers |-> Idle]
    /\ file0 = Absent
    /\ call = NoCall
    /\ parse = NoParse

Get ==
    /\ \E io \in ReadOutcomes : get_system_prompt(io)
    /\ UNCHANGED <<concVars, pipeVars>>

Set ==
    /\ \E content \in Contents, io \in SaveOutcomes : update_system_prompt(content, io)
    /\ UNCHANGED <<concVars, pipeVars>>

Clear ==
    /\ clear_system_prompt
    /\ UNCHANGED <<concVars, pipeVars>>

Next == Get \/ Set \/ Clear

Spec == Init /\ [][Next]_vars

-----------------------------------------------------------------------------
(* SpecConc: the prompt store shared by several workers *)

\* Each worker serves one request, a get or a set, and the steps of the
\* workers interleave.  A worker's record holds the request (op, content),
\* its position (pc), the offset of its file descriptor (pos) and what
\* get_stored_system_prompt returned (result).

\* contents the concurrent clients post
ConcContents == SeqsUpTo({"a", "b"}, MaxLen)

\* what reads back from a hole left by a write beyond the end of the file
NUL == "NUL"

\* write(2) of chunk at offset pos
WriteAt(data, pos, chunk) ==
    LET padded == IF Len(data) < pos
                  THEN data \o [i \in 1..(pos - Len(data)) |-> NUL]
                  ELSE data
    IN  SubSeq(padded, 1, pos) \o chunk
            \o SubSeq(padded, pos + Len(chunk) + 1, Len(padded))

InitConc ==
    /\ file \in {Absent} \cup {Stored(c) : c \in ConcContents}
    /\ file0 = file
    /\ workers = [p \in Workers |-> Idle]
    /\ resp = NoResponse
    /\ lastSet = NoSet
    /\ cleared = FALSE
    /\ call = NoCall
    /\ parse = NoParse

\* a GET /api/system-prompt arrives at worker p
StartGet(p) ==
    /\ workers[p].pc = "idle"
    /\ workers' = [workers EXCEPT ![p] = [Idle EXCEPT !.op = "get", !.pc = "exists"]]
    /\ UNCHANGED <<file, file0, storeVars, pipeVars>>

\* get_stored_system_prompt: os.path.exists(SYSTEM_PROMPT_FILE)
GetExists(p) ==
    /\ workers[p].pc = "exists"
    /\ workers' = [workers EXCEPT ![p] =
            IF file.exists
            THEN [@ EXCEPT !.pc = "read"]
            ELSE [@ EXCEPT !.pc = "done", !.result = SYSTEM_PROMPT]]
    /\ UNCHANGED <<file, file0, storeVars, pipeVars>>

\* get_stored_system_prompt: open(.., "r") and f.read().strip()
GetRead(p) ==
    /\ workers[p].pc = "read"
    /\ workers' = [workers EXCEPT ![p] =
            [@ EXCEPT !.pc = "done", !.result = get_stored_system_prompt(file, "ok")]]
    /\ UNCHANGED <<file, file0, storeVars, pipeVars>>

\* a POST /api/system-prompt arrives at worker p: update_system_prompt
\* validates the content
StartSet(p, content) ==
    /\ workers[p].pc = "idle"
    /\ workers' = [workers EXCEPT ![p] =
            [Idle EXCEPT !.op = "set", !.content = content,
                         !.pc = IF content_is_empty(content) THEN "done" ELSE "open"]]
    /\ UNCHANGED <<file, file0, storeVars, pipeVars>>

\* save_system_prompt: os.makedirs and open(.., "w"), which creates the file
\* or truncates it; the descriptor starts at offset 0
SaveOpen(p) ==
    /\ workers[p].pc = "open"
    /\ file' = Stored(<<>>)
    /\ workers' = [workers EXCEPT ![p] = [@ EXCEPT !.pc = "write", !.pos = 0]]
    /\ UNCHANGED <<file0, storeVars, pipeVars>>

\* save_system_prompt: f.write(content) and the close at the end of the `with`
\* block flush the buffer in one write(2) or, for a content longer than
\* the buffer, in several; each writes at the descriptor's own offset
SaveWrite(p) ==
    /\ workers[p].pc = "write"
    /\ \E n \in 1..(Len(workers[p].content) - workers[p].pos) :
          LET w     == workers[p]
              bytes == WriteText(w.content)
              chunk == SubSeq(bytes, w.pos + 1, w.pos + n)
          IN  /\ file' = Stored(WriteAt(file.data, w.pos, chunk))
              /\ workers' = [workers EXCEPT ![p] =
                    [@ EXCEPT !.pos = w.pos + n,
                              !.pc = IF w.pos + n = Len(bytes) THEN "done" ELSE "write"]]
    /\ UNCHANGED <<file0, storeVars, pipeVars>>

NextConc ==
    \E p \in Workers :
        \/ StartGet(p)
        \/ GetExists(p)
        \/ GetRead(p)
        \/ \E content \in ConcContents : StartSet(p, content)
        \/ SaveOpen(p)
        \/ SaveWrite(p)

SpecConc == InitConc /\ [][NextConc]_vars

-----------------------------------------------------------------------------
(* SpecDesign: the design and chat handlers behind one event loop *)

\* Requests: each optional field absent (None), present and empty, present
\* and not empty.
UserMessages == {<<"Design a plano-convex lens">>}

SystemMessages == {JNull, JStr(<<>>), JStr(<<"Keep the same diameter">>)}

ContextDicts == {JNull, JObj(<<>>), JObj(<< <<K("iteration"), JNum(<<"2">>)>> >>)}

Requests ==
    {Request(u, s, p, a) : u \in UserMessages, s \in SystemMessages,
                           p \in ContextDicts, a \in ContextDicts}

\* JSON values the backend may answer with
Word(w) == JStr(<<w>>)

DegField == JObj(<< <<K("deg"), JNum(<<"0">>)>> >>)

XYField == JObj(<< <<K("x_mm"), JNum(<<"0">>)>>, <<K("y_mm"), JNum(<<"1">>)>> >>)

SourceOf(type, fields) ==
    JObj(<< <<K("type"), Word(type)>>,
            <<K("fields"), JArr(fields)>>,
            <<K("wavelengths_nm"), JArr(<<JNum(<<"5">>)>>)>> >>)

Spherical == JObj(<< <<K("type"), Word("spherical")>>, <<K("roc_mm"), JNum(<<"2", "5">>)>> >>)

Planar == JObj(<< <<K("type"), Word("planar")>> >>)

PlanoConvex ==
    JObj(<< <<K("diameter_mm"), JNum(<<"2", "5">>)>>,
            <<K("thickness_mm"), JNum(<<"5">>)>>,
            <<K("distance_from_previous_mm"), JNum(<<"1", "0">>)>>,
            <<K("material"), Word("BK7")>>,
            <<K("front"), Spherical>>,
            <<K("back"), Planar>> >>)

DesignOf(source, lenses) ==
    JObj(<< <<K("source"), source>>,
            <<K("lenses"), JArr(lenses)>>,
            <<K("image_plane_x_mm"), JNum(<<"5", "0">>)>> >>)

WithExplanation(v, explanation) == JObj(Append(v[2], <<K("explanation"), explanation>>))

ReplyDesigns ==
    { DesignOf(SourceOf("infinity", <<DegField>>), <<PlanoConvex>>),
      DesignOf(SourceOf("point", <<XYField>>), <<>>),
      DesignOf(SourceOf("point", <<DegField>>), <<>>),
      DesignOf(SourceOf("infinity", <<XYField>>), <<>>),
      DesignOf(SourceOf("point", <<XYField, DegField>>), <<>>),
      DesignOf(SourceOf("laser", <<DegField>>), <<>>),
      DesignOf(SourceOf("infinity", <<DegField>>), <<Planar>>) }

ReplyValues ==
    ReplyDesigns
    \cup { WithExplanation(DesignOf(SourceOf("infinity", <<DegField>>), <<PlanoConvex>>),
                           Word("A plano-convex singlet")),
           WithExplanation(DesignOf(SourceOf("point", <<XYField>>), <<>>),
                           JStr(<<"Use", " ", FENCE, "BK7", FENCE>>)),
           WithExplanation(DesignOf(SourceOf("point", <<XYField>>), <<>>), JObj(<<>>)),
           JObj(<< <<K("lenses"), JArr(<<>>)>>, <<K("image_plane_x_mm"), JNum(<<"1">>)>> >>),
           JObj(<<>>),
           JObj(<< <<K("explanation"), Word("hello")>> >>),
           JObj(<< <<K("explanation"), JStr(<<MARKER>>)>> >>),
           JArr(<<>>),
           Word("hello"),
           JNum(<<"1">>),
           JNull }

ReplyObjects == {v \in ReplyValues : IsObj(v)}

Serializations(v) == {Dumps(v, 0, 0), Dumps(v, 2, 0)}

\* a serialization as it is, or between the marker and a closing fence, with
\* or without whitespace around
Bare(ser) == {ser, <<"\n">> \o ser \o <<" ">>}

Fenced(ser) ==
    {pre \o <<MARKER>> \o in \o ser \o out \o <<FENCE>> \o post :
        pre \in {<<>>, <<"\n">>}, in \in {<<>>, <<"\n">>},
        out \in {<<>>, <<"\n">>}, post \in {<<>>, <<"\n">>}}

\* the other ways a reply may carry a serialization
Untidy(ser) ==
    { <<"x", " ">> \o ser,
      ser \o <<" ", "x">>,
      <<"x", "\n", MARKER, "\n">> \o ser \o <<"\n", FENCE>>,
      <<MARKER, "\n">> \o ser \o <<"\n", FENCE, "\n", "x">>,
      <<MARKER, "\n">> \o ser,
      <<MARKER, "\n">> \o ser \o <<"\n">>,
      <<MARKER, "\n">> \o ser \o <<"x">>,
      <<FENCE, "\n">> \o ser \o <<"\n", FENCE>> }

\* tokens of the replies that are not built around a JSON value
TextChars == {"{", "}", QUOTE, "x", " ", FENCE, MARKER}

Replies ==
    SeqsUpTo(TextChars, MaxText)
    \cup UNION {Bare(ser) \cup Fenced(ser) \cup Untidy(ser) :
                    ser \in UNION {Serializations(v) : v \in ReplyValues}}

Outcomes ==
    {Outcome("api_error", <<>>), Outcome("error", <<>>)}
        \cup {Outcome("text", t) : t \in Replies}

\* contents the operator posts in SpecDesign
DesignContents == {<<"a">>, <<"b", "\n">>}

InitDesign ==
    /\ file \in {Absent, Stored(<<"a">>)}
    /\ resp = NoResponse
    /\ lastSet = NoSet
    /\ cleared = FALSE
    /\ workers = [p \in Workers |-> Idle]
    /\ file0 = Absent
    /\ call = NoCall
    /\ parse = NoParse

\* POST /api/system-prompt, between requests
DesignSet ==
    /\ call.endpoint = "none"
    /\ \E content \in DesignContents : update_system_prompt(content, "ok")
    /\ UNCHANGED <<concVars, pipeVars>>

SendDesign ==
    /\ \E req \in Requests, io \in ReadOutcomes : send_request("design", req, io)
    /\ UNCHANGED concVars

SendChat ==
    /\ \E req \in Requests, io \in ReadOutcomes : send_request("chat", req, io)
    /\ UNCHANGED concVars

BackendTakes ==
    /\ backend_takes_call
    /\ UNCHANGED concVars

ReturnDesign ==
    /\ \E outcome \in Outcomes : generate_optical_design(outcome)
    /\ UNCHANGED concVars

ReturnChat ==
    /\ \E outcome \in Outcomes : chat_endpoint(outcome)
    /\ UNCHANGED concVars

NextDesign ==
    DesignSet \/ SendDesign \/ SendChat \/ BackendTakes \/ ReturnDesign \/ ReturnChat

SpecDesign == InitDesign /\ [][NextDesign]_vars

-----------------------------------------------------------------------------
(* Claims about the prompt store, checked under Spec *)

\* the contents that are empty or hold only whitespace
BlankContents == {c \in Contents : Strip(c) = <<>>}

HoldsOverride(f) == f.exists /\ Strip(ReadText(f.data)) # <<>>

\* C1: a set whose content is empty or whitespace-only answers 400 and leaves
\* the file, and so what a get returns, exactly as it was.
C1_BlankSetRejected ==
    [][\A content \in BlankContents, io \in SaveOutcomes :
         update_system_prompt(content, io)
            => /\ resp'.op = "set" /\ resp'.status = 400
               /\ file' = file
               /\ \A r \in ReadOutcomes :
                     get_stored_system_prompt(file', r) = get_stored_system_prompt(file, r)]_vars

\* a blank set was refused while an override was stored
C1_Witness ==
    /\ resp.op = "set" /\ resp.status = 400
    /\ HoldsOverride(file)

\* C2 as stated: after a successful set(c) that still stands, a get (whose
\* read succeeds) returns c itself.
C2_GetReturnsContentVerbatim ==
    [][(lastSet.set /\ get_system_prompt("ok")) => resp'.content = lastSet.content]_vars

\* C2 amended: after a successful set(c) that still stands, a get whose read
\* succeeds returns c as a text-mode read gives it back (CR LF and CR turned
\* into LF) with leading and trailing whitespace stripped.
C2_GetReturnsStrippedContent ==
    [][(lastSet.set /\ get_system_prompt("ok"))
          => /\ resp'.status = 200
             /\ resp'.content = Strip(ReadText(lastSet.content))
             /\ (Strip(lastSet.content) = lastSet.content /\ "\r" \notin Range(lastSet.content))
                    => resp'.content = lastSet.content]_vars

\* a get answered with the stripped form of a content that has whitespace
\* around it
C2_Witness ==
    /\ resp.op = "get" /\ lastSet.set
    /\ resp.content = Strip(ReadText(lastSet.content))
    /\ resp.content # lastSet.content

NoUsableOverride(f, io) ==
    \/ ~f.exists
    \/ Strip(f.data) = <<>>
    \/ io = "error"

-----------------------------------------------------------------------------
(* Claims about concurrent use of the prompt store, checked under SpecConc *)

\* the sets that passed validation and reached save_system_prompt
Writers == {p \in Workers : workers[p].op = "set" /\ ~content_is_empty(workers[p].content)}

\* what a get returns when it reads the complete value v
CompleteValues ==
    {get_stored_system_prompt(file0, "ok")}
        \cup {get_stored_system_prompt(Stored(WriteText(workers[q].content)), "ok") : q \in Writers}

\* C3: a get that runs while sets run returns the value stored before them
\* or the complete value of one of them: never part of one, and never the
\* default because it met the file truncated.
C3_GetSeesCompleteValue ==
    \A p \in Workers :
        (workers[p].op = "get" /\ workers[p].pc = "done")
            => workers[p].result \in CompleteValues

\* C4: once concurrent sets have all finished, the file holds exactly the
\* content of one of them.
C4_LastWriteWins ==
    (/\ Cardinality(Writers) >= 2
     /\ \A p \in Workers : workers[p].pc \in {"idle", "done"})
        => file \in {Stored(WriteText(workers[p].content)) : p \in Writers}

-----------------------------------------------------------------------------
(* Claims about the design pipeline, checked under SpecDesign *)

\* a handler has built its call and the backend has not taken it yet
CallSent == call.endpoint # "none" /\ ~call.taken

\* the context pair followed by the live turn
IsContextConversation(msgs, user_message) ==
    /\ Len(msgs) = 3
    /\ msgs[1].role = "user"
    /\ msgs[1].content # <<>>
    /\ msgs[2] = Message("assistant", ACKNOWLEDGMENT)
    /\ msgs[3] = Message("user", user_message)

\* C7 as stated: when previous_design or added_data is supplied and not
\* null the turns sent are the context turn, the acknowledgment and the live
\* user turn; when neither is, the live user turn alone.
C7_ContextPairWhenSupplied ==
    CallSent =>
        IF call.req.previous_design # JNull \/ call.req.added_data # JNull
        THEN IsContextConversation(call.messages, call.req.user_message)
        ELSE call.messages = <<Message("user", call.req.user_message)>>

\* C7, amended: the context pair is sent when previous_design or added_data
\* is supplied and not empty; an empty object counts as not supplied.  The
\* last turn is always the live user turn.
C7_ContextPairWhenNotEmpty ==
    CallSent =>
        /\ IF Truthy(call.req.previous_design) \/ Truthy(call.req.added_data)
           THEN IsContextConversation(call.messages, call.req.user_message)
           ELSE call.messages = <<Message("user", call.req.user_message)>>
        /\ call.messages[Len(call.messages)] = Message("user", call.req.user_message)

C7_Witness ==
    /\ CallSent
    /\ Truthy(call.req.previous_design)
    /\ call.req.added_data = JObj(<<>>)
    /\ Len(call.messages) = 3

\* the replies that are the serialization of an object, bare or in one
\* fence, each with the object
RoundTrips ==
    UNION {{<<o, reply>> : reply \in Bare(ser) \cup Fenced(ser)} :
              <<o, ser>> \in UNION {{<<v, d>> : d \in Serializations(v)} : v \in ReplyObjects}}

\* C8: when the reply to a design request is the serialization of an
\* object, bare or inside one fence opened by the marker, with or without
\* whitespace around, the extraction succeeds and yields that object.
C8_ExtractionRoundTrip ==
    \A case \in RoundTrips :
        (resp.op = "design" /\ parse.raw = case[2])
            => parse.ok /\ parse.data = case[1]

\* C9: a design request whose reply could not be parsed, with or without
\* the marker, ends in a failure whose detail carries the text that could
\* not be parsed, and returns no design.
C9_FailedExtractionCarriesText ==
    (resp.op = "design" /\ parse # NoParse /\ ~parse.ok)
        => /\ resp.status = 500
           /\ resp.content = <<>>
           /\ resp.detail.text \in {parse.text, Strip(parse.raw)}

\* a field of the variant that the source type implies
MatchesVariant(type, field) ==
    IF type = Word("point")
    THEN HasKey(field, K("x_mm")) /\ HasKey(field, K("y_mm")) /\ ~HasKey(field, K("deg"))
    ELSE HasKey(field, K("deg")) /\ ~HasKey(field, K("x_mm")) /\ ~HasKey(field, K("y_mm"))

\* C10: a design is returned only when every element of source.fields is of
\* the variant that source.type implies: a point source with a deg field is
\* rejected, and so is an infinity source with an x_mm/y_mm field.
C10_FieldsMatchSourceType ==
    (resp.op = "design" /\ resp.status = 200)
        => LET source == Lookup(parse.data, K("source"))
               fields == Lookup(source, K("fields"))[2]
           IN  \A i \in 1..Len(fields) :
                   MatchesVariant(Lookup(source, K("type")), fields[i])

\* a design request was answered with a design
DesignReturned == resp.op = "design" /\ resp.status = 200

\* C11: when a design request succeeds on a reply whose object has a
\* top-level explanation string, the response carries that string as its
\* explanation, the design was validated and built from the other keys, and
\* the design has no explanation key; when the reply has no explanation key
\* the response has no explanation.
C11_ExplanationSeparated ==
    DesignReturned =>
        LET design_data == WithoutKey(parse.data, K("explanation"))
        IN  /\ IsObj(parse.data)
            /\ IF HasKey(parse.data, K("explanation"))
                  /\ IsStr(Lookup(parse.data, K("explanation")))
               THEN resp.content.explanation = Lookup(parse.data, K("explanation"))
               ELSE resp.content.explanation = JNull
            /\ OpticalDesign(design_data)
            /\ resp.content.design = OpticalDesignModel(design_data)
            /\ ~HasKey(resp.content.design, K("explanation"))

C11_Witness ==
    /\ DesignReturned
    /\ parse.raw # parse.text
    /\ resp.content.explanation = Word("A plano-convex singlet")
    /\ Len(Lookup(resp.content.design, K("lenses"))[2]) = 1

\* the class in which an operation surfaces a failure of the backend call:
\* the prefix of the detail it raises for anthropic.APIError
BackendErrorClass(op) ==
    IF op = "design" THEN "Anthropic API error" ELSE "Error in chat"

\* C12: in the design and in the chat operation, a failure surfaced in the
\* class of backend failures is a failure of the backend call: no failure
\* that came after the backend answered shares the class.
C12_BackendFailureIsDistinctClass ==
    (resp.op \in {"design", "chat"} /\ resp.status = 500
        /\ resp.detail.prefix = BackendErrorClass(resp.op))
            => resp.detail.cause = "APIError"

\* the text is a JSON document
DirectJson(text) == json_loads(text).ok

\* the text holds the marker, a closing fence later, and a JSON document
\* between the first marker and the first fence after it
FencedJson(text) ==
    \E i \in 1..Len(text) :
        /\ text[i] = MARKER
        /\ \A h \in 1..(i - 1) : text[h] # MARKER
        /\ \E j \in (i + 1)..Len(text) :
              /\ text[j] \in {FENCE, MARKER}
              /\ \A h \in (i + 1)..(j - 1) : text[h] \notin {FENCE, MARKER}
              /\ json_loads(Strip(SubSeq(text, i + 1, j - 1))).ok

\* C13: when the backend call succeeded, chat answers 200, with the design
\* shape if and only if the trimmed reply is a JSON document or holds one
\* in a fence opened by the marker, and with the text shape otherwise.
C13_ChatDesignIffJson ==
    (resp.op = "chat" /\ parse # NoParse)
        => /\ resp.status = 200
           /\ resp.content.type = "design"
                <=> (DirectJson(Strip(parse.raw)) \/ FencedJson(Strip(parse.raw)))

\* what the read of the prompt store gave the request whose call is sent:
\* the override that the file holds, trimmed, or the built-in default when
\* it holds none or the read failed
BasePromptRead ==
    IF call.read = "ok" /\ HoldsOverride(file) THEN Strip(ReadText(file.data))
    ELSE SYSTEM_PROMPT

\* the base prompt with the section of additional instructions
WithInstructions(base, instructions) ==
    base \o <<"\n", "\n", "ADDITIONAL INSTRUCTIONS:", "\n">> \o instructions

\* C14 as stated: the system text of a design or chat request is the value
\* of the prompt store at that request, unchanged when system_message is
\* not supplied, and followed by the section of additional instructions
\* whenever system_message is supplied (not null).
C14_InstructionsWhenSupplied ==
    CallSent =>
        call.system = IF call.req.system_message # JNull
                      THEN WithInstructions(BasePromptRead, call.req.system_message[2])
                      ELSE BasePromptRead

\* C14, amended: the section of additional instructions is appended when
\* system_message is supplied and not empty; an empty string counts as not
\* supplied.  The base is the override that the file holds at the request
\* (trimmed), or the built-in default when it holds none or the read fails.
C14_InstructionsWhenNotEmpty ==
    CallSent =>
        call.system = IF Truthy(call.req.system_message)
                      THEN WithInstructions(BasePromptRead, call.req.system_message[2])
                      ELSE BasePromptRead

C14_Witness ==
    /\ CallSent
    /\ call.read = "ok"
    /\ lastSet.set
    /\ file = Stored(<<"b", "\n">>)
    /\ call.req.system_message = JStr(<<"Keep the same diameter">>)
    /\ call.system = WithInstructions(<<"b">>, <<"Keep the same diameter">>)

\* C15: the extraction of a design request succeeds only when the trimmed
\* reply is a JSON document or holds one between the marker and a closing
\* fence after it; a marker that is never closed, or JSON among prose, is a
\* failure.
C15_OnlyFencedDeviationTolerated ==
    (resp.op = "design" /\ parse.ok)
        => (DirectJson(Strip(parse.raw)) \/ FencedJson(Strip(parse.raw)))

=============================================================================
